---- MODULE Spec2Model ----
(***************************************************************************)
(* Model of src/process_pdfs.py: the heading inference pipeline            *)
(* (clean_text, is_likely_heading, extract_font_statistics,                *)
(* determine_heading_levels, extract_title_from_pdf, extract_outline) and  *)
(* the batch loop process_pdfs.                                            *)
(*                                                                         *)
(* Representation.                                                         *)
(*   text       a sequence of one-character strings                        *)
(*   font size  an integer number of hundredths of a point as delivered by *)
(*              the PDF library, tenths of a point after round(size, 1)    *)
(*   average    the pair [sum, n] of the mean sum/n of rounded sizes;      *)
(*              comparisons with 1.1 x and 1.3 x the average are made in   *)
(*              exact arithmetic                                           *)
(*   document   [openable, title, pages]; a page is the sequence of its    *)
(*              spans in block/line/span order, each span carrying the y   *)
(*              of its line                                                *)
(***************************************************************************)
EXTENDS Integers, Sequences, FiniteSets, TLC

VARIABLES
    args,              \* arguments of the function under analysis
    ret,               \* its return value
    done,              \* TRUE once the function has returned
    pdf_files,         \* process_pdfs: the documents of the input directory
    next_file,         \* process_pdfs: index of the next document of the loop
    output_dir,        \* process_pdfs: the JSON written for each document
    total_pages_processed,  \* process_pdfs: counter
    successful_files,  \* process_pdfs: counter
    failed_files       \* process_pdfs: counter

vars == <<args, ret, done, pdf_files, next_file, output_dir,
          total_pages_processed, successful_files, failed_files>>

----------------------------------------------------------------------------
(* Characters and the string primitives of Python used by the code.        *)

UpperLetters == <<"A","B","C","D","E","F","G","H","I","J","K","L","M",
                  "N","O","P","Q","R","S","T","U","V","W","X","Y","Z">>

LowerLetters == <<"a","b","c","d","e","f","g","h","i","j","k","l","m",
                  "n","o","p","q","r","s","t","u","v","w","x","y","z">>

DigitChars == {"0","1","2","3","4","5","6","7","8","9"}

\* the punctuation the allow-list of clean_text keeps
AllowedPunctuation ==
    {"-", ".", ",", ":", ";", "!", "?", "(", ")", "[", "]", "/", "\"", "'", "&"}

UpperSet == {UpperLetters[k] : k \in 1..26}

LowerSet == {LowerLetters[k] : k \in 1..26}

\* str.isupper() on one character, and the class [A-Z]
IsUpper(c) == c \in UpperSet

IsLower(c) == c \in LowerSet

\* the class \d
IsDigit(c) == c \in DigitChars

\* the class \s, and the characters str.strip() and str.split() treat as blank
IsSpace(c) == c \in {" ", "\t", "\n"}

\* the class \w
IsWordChar(c) == IsUpper(c) \/ IsLower(c) \/ IsDigit(c) \/ c = "_"

\* a character outside the class [^\w\s\-\.\,\:\;\!\?\(\)\[\]\/\"\'&]
IsKept(c) == IsWordChar(c) \/ IsSpace(c) \/ c \in AllowedPunctuation

LowerOf == [c \in UpperSet |-> LowerLetters[CHOOSE k \in 1..26 : UpperLetters[k] = c]]

LowerChar(c) == IF IsUpper(c) THEN LowerOf[c] ELSE c

\* str.lower()
lower(t) == [k \in 1..Len(t) |-> LowerChar(t[k])]

RECURSIVE lstrip(_)
lstrip(t) == IF t # <<>> /\ IsSpace(Head(t)) THEN lstrip(Tail(t)) ELSE t

RECURSIVE rstrip(_)
rstrip(t) ==
    IF t # <<>> /\ IsSpace(t[Len(t)]) THEN rstrip(SubSeq(t, 1, Len(t) - 1)) ELSE t

\* str.strip()
strip(t) == rstrip(lstrip(t))

\* re.sub(r'\s+', ' ', t): every maximal run of blanks becomes one space
RECURSIVE CollapseWhitespace(_)
CollapseWhitespace(t) ==
    IF t = <<>> THEN <<>>
    ELSE IF IsSpace(Head(t))
         THEN <<" ">> \o CollapseWhitespace(lstrip(t))
         ELSE <<Head(t)>> \o CollapseWhitespace(Tail(t))

\* the longest blank-free prefix of t
RECURSIVE FirstWord(_)
FirstWord(t) ==
    IF t = <<>> \/ IsSpace(Head(t)) THEN <<>>
    ELSE <<Head(t)>> \o FirstWord(Tail(t))

\* str.split(): the maximal blank-free runs, in order
RECURSIVE split(_)
split(t) ==
    LET s == lstrip(t) IN
    IF s = <<>> THEN <<>>
    ELSE LET w == FirstWord(s) IN
         <<w>> \o split(SubSeq(s, Len(w) + 1, Len(s)))

\* a in b, for strings
IsSubstring(a, b) ==
    \E k \in 0..(Len(b) - Len(a)) : SubSeq(b, k + 1, k + Len(a)) = a

\* len(re.findall(r'\d', t))
RECURSIVE CountDigits(_)
CountDigits(t) ==
    IF t = <<>> THEN 0
    ELSE (IF IsDigit(Head(t)) THEN 1 ELSE 0) + CountDigits(Tail(t))

----------------------------------------------------------------------------
(* clean_text                                                              *)

clean_text(text) ==
    IF text = <<>> THEN <<>>
    ELSE SelectSeq(CollapseWhitespace(strip(text)), IsKept)

----------------------------------------------------------------------------
(* is_likely_heading                                                       *)

\* r'^(\d+\.?\s*)+' : the group needs one digit, the rest is optional
MatchesNumbered(s) == s # <<>> /\ IsDigit(s[1])

\* r'^[A-Z][A-Z\s]{2,}$'
MatchesAllCaps(s) ==
    /\ Len(s) >= 3
    /\ IsUpper(s[1])
    /\ \A k \in 2..Len(s) : IsUpper(s[k]) \/ IsSpace(s[k])

SectionKeywords ==
    { <<"C","h","a","p","t","e","r">>, <<"S","e","c","t","i","o","n">>,
      <<"P","a","r","t">>, <<"A","p","p","e","n","d","i","x">> }

\* r'^(Chapter|Section|Part|Appendix)\s+\d+'
MatchesSection(s) ==
    \E kw \in SectionKeywords :
        /\ Len(s) >= Len(kw) + 2
        /\ SubSeq(s, 1, Len(kw)) = kw
        /\ \E m \in 1..(Len(s) - Len(kw) - 1) :
              /\ \A k \in (Len(kw) + 1)..(Len(kw) + m) : IsSpace(s[k])
              /\ IsDigit(s[Len(kw) + m + 1])

\* r'^[IVX]+\.\s+'
MatchesRoman(s) ==
    \E m \in 1..(Len(s) - 2) :
        /\ \A k \in 1..m : s[k] \in {"I", "V", "X"}
        /\ s[m + 1] = "."
        /\ IsSpace(s[m + 2])

\* r'^\w+\s*:$'
MatchesLabel(s) ==
    /\ Len(s) >= 2
    /\ s[Len(s)] = ":"
    /\ \E m \in 1..(Len(s) - 1) :
          /\ \A k \in 1..m : IsWordChar(s[k])
          /\ \A k \in (m + 1)..(Len(s) - 1) : IsSpace(s[k])

\* any(re.match(pattern, text.strip()) for pattern in heading_patterns)
has_heading_pattern(text) ==
    LET s == strip(text) IN
    \/ MatchesNumbered(s)
    \/ MatchesAllCaps(s)
    \/ MatchesSection(s)
    \/ MatchesRoman(s)
    \/ MatchesLabel(s)

\* sum(1 for word in words if word and word[0].isupper())
capitalized_words(words) ==
    Cardinality({k \in 1..Len(words) : words[k] # <<>> /\ IsUpper(words[k][1])})

\* capitalized_words / len(words) >= 0.7 on texts of two words or more
is_title_case(text) ==
    LET words == split(text) IN
    IF Len(words) >= 2 THEN 10 * capitalized_words(words) >= 7 * Len(words)
    ELSE FALSE

\* font_size >= avg_font_size * 1.1, with avg = sum / n; exact, so it agrees with
\* the floating-point comparison of the code except when the two sides are equal
is_large_font(font_size, avg) == 10 * font_size * avg.n >= 11 * avg.sum

\* font_size >= avg_font_size * 1.3
is_significantly_larger(font_size, avg) == 10 * font_size * avg.n >= 13 * avg.sum

heading_score(text, font_size, is_bold, avg) ==
      (IF is_large_font(font_size, avg) THEN 2 ELSE 0)
    + (IF is_significantly_larger(font_size, avg) THEN 2 ELSE 0)
    + (IF is_bold THEN 2 ELSE 0)
    + (IF has_heading_pattern(text) THEN 3 ELSE 0)
    + (IF is_title_case(text) THEN 1 ELSE 0)
    + (IF Len(split(text)) <= 8 THEN 1 ELSE 0)

\* faulty variant: acceptance threshold off by one
is_likely_heading_strict(text, font_size, is_bold, avg) ==
    IF text = <<>> \/ Len(strip(text)) < 3 THEN FALSE
    ELSE IF Len(split(text)) > 20 THEN FALSE
    ELSE IF 10 * CountDigits(text) > 3 * Len(text) THEN FALSE
    ELSE heading_score(text, font_size, is_bold, avg) > 3

is_likely_heading(text, font_size, is_bold, avg) ==
    IF text = <<>> \/ Len(strip(text)) < 3 THEN FALSE
    ELSE IF Len(split(text)) > 20 THEN FALSE
    ELSE IF 10 * CountDigits(text) > 3 * Len(text) THEN FALSE
    ELSE heading_score(text, font_size, is_bold, avg) >= 3

----------------------------------------------------------------------------
(* determine_heading_levels, and the ordering and projection of the        *)
(* outline in extract_outline                                              *)

LevelNames == <<"H1", "H2", "H3", "H4", "H5", "H6">>

\* the k of "Hk"
LevelOrdinal(level) == CHOOSE k \in 1..6 : LevelNames[k] = level

\* sorted(sizes, reverse=True) on a set of distinct numbers
RECURSIVE SortedDescending(_)
SortedDescending(S) ==
    IF S = {} THEN <<>>
    ELSE LET m == CHOOSE x \in S : \A z \in S : z <= x IN
         <<m>> \o SortedDescending(S \ {m})

\* sorted(sizes) without reverse=True
RECURSIVE SortedAscending(_)
SortedAscending(S) ==
    IF S = {} THEN <<>>
    ELSE LET m == CHOOSE x \in S : \A z \in S : z >= x IN
         <<m>> \o SortedAscending(S \ {m})

\* the level of every heading, given the order of the sizes and the number of
\* sizes that receive a level of their own
LevelsBy(headings, sorted_sizes, limit) ==
    LET mapped == 1..(IF Len(sorted_sizes) < limit THEN Len(sorted_sizes) ELSE limit)
        level_map == [sz \in {sorted_sizes[k] : k \in mapped} |->
                         LevelNames[CHOOSE k \in mapped : sorted_sizes[k] = sz]]
    IN  [k \in 1..Len(headings) |->
            [level |-> IF headings[k].size \in DOMAIN level_map
                       THEN level_map[headings[k].size]
                       ELSE "H6"] @@ headings[k]]

\* faulty variant: the sizes are sorted without reverse=True
determine_heading_levels_ascending(headings) ==
    IF headings = <<>> THEN <<>>
    ELSE LevelsBy(headings,
                  SortedAscending({headings[k].size : k \in 1..Len(headings)}), 6)

\* faulty variant: only the four largest sizes get a level of their own
determine_heading_levels_four(headings) ==
    IF headings = <<>> THEN <<>>
    ELSE LevelsBy(headings,
                  SortedDescending({headings[k].size : k \in 1..Len(headings)}), 4)

\* font_stats is not read by the function and is left out
determine_heading_levels(headings) ==
    IF headings = <<>> THEN <<>>
    ELSE LevelsBy(headings,
                  SortedDescending({headings[k].size : k \in 1..Len(headings)}), 6)

\* faulty variant: the two components of the sort key are swapped
KeyLessOrEqual_swapped(a, b) == a.y < b.y \/ (a.y = b.y /\ a.page <= b.page)

\* (a.page, a.y) <= (b.page, b.y)
KeyLessOrEqual(a, b) == a.page < b.page \/ (a.page = b.page /\ a.y <= b.y)

\* one step of a stable sort: x goes after every element whose key is <= its own
InsertByKey(sorted, x) ==
    LET p == Cardinality({k \in 1..Len(sorted) : KeyLessOrEqual(sorted[k], x)}) IN
    SubSeq(sorted, 1, p) \o <<x>> \o SubSeq(sorted, p + 1, Len(sorted))

\* list.sort(key=lambda x: (x["page"], x["y"])): stable
RECURSIVE SortByPageAndY(_)
SortByPageAndY(list) ==
    IF list = <<>> THEN <<>>
    ELSE InsertByKey(SortByPageAndY(SubSeq(list, 1, Len(list) - 1)), list[Len(list)])

\* the outline entries of the sorted headings
format_outline(headings_with_levels) ==
    [k \in 1..Len(headings_with_levels) |->
        [level |-> headings_with_levels[k].level,
         text  |-> headings_with_levels[k].text,
         page  |-> headings_with_levels[k].page]]

----------------------------------------------------------------------------
(* Documents as the PDF library presents them                              *)

\* round(span["size"], 1): hundredths to tenths, to the nearest tenth (the
\* sizes of the model never lie halfway between two tenths)
round1(size) == (size + 5) \div 10

\* "Bold" in font_name or "bold" in font_name.lower(), on the fonts of the model
BoldFontNames == {"Helvetica-Bold", "times-bolditalic"}

is_bold_font(font_name) == font_name \in BoldFontNames

\* the spans of the document in the order of the nested loops over pages,
\* blocks, lines and spans, each with its 1-based page number
RECURSIVE SpansFrom(_, _)
SpansFrom(pages, page_num) ==
    IF pages = <<>> THEN <<>>
    ELSE [k \in 1..Len(Head(pages)) |-> [page |-> page_num] @@ Head(pages)[k]]
         \o SpansFrom(Tail(pages), page_num + 1)

\* enumerate(doc, start=1)
AllSpans(doc) == SpansFrom(doc.pages, 1)

----------------------------------------------------------------------------
(* extract_font_statistics                                                 *)

\* the spans the statistics count: stripped text of more than 2 characters
CountsForStatistics(span) == Len(strip(span.text)) > 2

\* font_counts[(size, font)]: the summed stripped lengths of the counted spans
RECURSIVE FontWeight(_, _)
FontWeight(spans, key) ==
    IF spans = <<>> THEN 0
    ELSE (IF <<round1(Head(spans).size), Head(spans).font>> = key
          THEN Len(strip(Head(spans).text)) ELSE 0)
         + FontWeight(Tail(spans), key)

\* font_counts.most_common(1)[0][0]: the heaviest key, the first inserted on ties
MostCommonFont(spans) ==
    LET key(k) == <<round1(spans[k].size), spans[k].font>>
        best == CHOOSE k \in 1..Len(spans) :
                   /\ \A j \in 1..Len(spans) :
                         FontWeight(spans, key(j)) <= FontWeight(spans, key(k))
                   /\ \A j \in 1..(k - 1) :
                         FontWeight(spans, key(j)) < FontWeight(spans, key(k))
    IN  key(best)

RECURSIVE SumSizes(_)
SumSizes(spans) ==
    IF spans = <<>> THEN 0 ELSE round1(Head(spans).size) + SumSizes(Tail(spans))

extract_font_statistics(doc) ==
    LET counted == SelectSeq(AllSpans(doc), CountsForStatistics) IN
    [avg_font_size |->
        IF counted # <<>> THEN [sum |-> SumSizes(counted), n |-> Len(counted)]
        ELSE [sum |-> 120, n |-> 1],
     most_common_font |->
        IF counted # <<>> THEN MostCommonFont(counted) ELSE <<120, "">>,
     all_sizes |->
        SortedDescending({round1(counted[k].size) : k \in 1..Len(counted)})]

----------------------------------------------------------------------------
(* extract_title_from_pdf                                                  *)

UntitledDocument ==
    <<"U","n","t","i","t","l","e","d"," ","D","o","c","u","m","e","n","t">>

\* a span that makes a title candidate
IsTitleCandidate(span) ==
    LET text == clean_text(span.text) IN
    text # <<>> /\ Len(split(text)) >= 2 /\ Len(text) >= 10

\* the candidates of a page, in span order; the field "bold" is never read, and
\* "span", the position of the span on the page, stands for the identity of the
\* candidate object
TitleCandidates(page) ==
    LET tagged == [k \in 1..Len(page) |-> [span |-> k] @@ page[k]]
        kept == SelectSeq(tagged, IsTitleCandidate)
    IN  [k \in 1..Len(kept) |->
            [text |-> clean_text(kept[k].text), size |-> kept[k].size,
             y |-> kept[k].y, span |-> kept[k].span]]

\* (-a.size, a.y) <= (-b.size, b.y)
CandidateKeyLessOrEqual(a, b) == a.size > b.size \/ (a.size = b.size /\ a.y <= b.y)

InsertCandidate(sorted, x) ==
    LET p == Cardinality({k \in 1..Len(sorted) : CandidateKeyLessOrEqual(sorted[k], x)})
    IN  SubSeq(sorted, 1, p) \o <<x>> \o SubSeq(sorted, p + 1, Len(sorted))

\* faulty variant: the candidates are sorted by vertical position first
SortCandidates_by_position(candidates) ==
    SortByPageAndY([k \in 1..Len(candidates) |-> [page |-> 1] @@ candidates[k]])

\* candidates.sort(key=lambda x: (-x["size"], x["y"])): stable
RECURSIVE SortCandidates(_)
SortCandidates(candidates) ==
    IF candidates = <<>> THEN <<>>
    ELSE InsertCandidate(SortCandidates(SubSeq(candidates, 1, Len(candidates) - 1)),
                         candidates[Len(candidates)])

Abs(v) == IF v < 0 THEN -v ELSE v

\* the test of the inner loop: same line, and one text within the other
IsNearDuplicate(candidate, existing) ==
    /\ Abs(candidate.y - existing.y) < 10
    /\ \/ IsSubstring(lower(candidate.text), lower(existing.text))
       \/ IsSubstring(lower(existing.text), lower(candidate.text))

\* faulty variant: no candidate is dropped
FilterDuplicates_keep_all(candidates, filtered) == filtered \o candidates

\* the loop over the sorted candidates, filtered_candidates being those kept so far
RECURSIVE FilterDuplicates(_, _)
FilterDuplicates(candidates, filtered) ==
    IF candidates = <<>> THEN filtered
    ELSE IF \E k \in 1..Len(filtered) : IsNearDuplicate(Head(candidates), filtered[k])
         THEN FilterDuplicates(Tail(candidates), filtered)
         ELSE FilterDuplicates(Tail(candidates), Append(filtered, Head(candidates)))

\* filtered_candidates of the first page
FilteredCandidates(page) == FilterDuplicates(SortCandidates(TitleCandidates(page)), <<>>)

Returned(value) == [raised |-> FALSE, value |-> value]

Raised == [raised |-> TRUE, value |-> <<>>]

\* strategy 2; doc[0] raises IndexError on a document without pages
page_one_title(doc) ==
    IF doc.pages = <<>> THEN Raised
    ELSE IF TitleCandidates(doc.pages[1]) = <<>> THEN Returned(UntitledDocument)
    ELSE LET filtered_candidates == FilteredCandidates(doc.pages[1]) IN
         IF filtered_candidates # <<>>
         THEN Returned(filtered_candidates[1].text)
         ELSE Returned(UntitledDocument)

extract_title_from_pdf(doc) ==
    LET metadata_title == strip(doc.title) IN
    IF metadata_title # <<>> /\ Len(metadata_title) > 3
    THEN Returned(clean_text(metadata_title))
    ELSE page_one_title(doc)

----------------------------------------------------------------------------
(* extract_outline                                                         *)

ErrorProcessingDocument ==
    <<"E","r","r","o","r"," ","P","r","o","c","e","s","s","i","n","g"," ",
      "D","o","c","u","m","e","n","t">>

\* the spans kept by the second loop
IsTextBlock(span) ==
    LET text == clean_text(span.text) IN ~(text = <<>> \/ Len(text) < 3)

\* text_blocks; the fields x, font, italic and flags are never read afterwards
TextBlocks(doc) ==
    LET kept == SelectSeq(AllSpans(doc), IsTextBlock) IN
    [k \in 1..Len(kept) |->
        [text |-> clean_text(kept[k].text),
         page |-> kept[k].page,
         y    |-> kept[k].y,
         size |-> round1(kept[k].size),
         bold |-> is_bold_font(kept[k].font)]]

\* headings: the text blocks is_likely_heading accepts
Headings(doc) ==
    LET avg_font_size == extract_font_statistics(doc).avg_font_size
        Accepted(block) ==
            is_likely_heading(block.text, block.size, block.bold, avg_font_size)
    IN  SelectSeq(TextBlocks(doc), Accepted)

\* headings_with_levels after the sort
SortedHeadings(doc) == SortByPageAndY(determine_heading_levels(Headings(doc)))

ErrorResult == [title |-> ErrorProcessingDocument, outline |-> <<>>]

\* fitz.open and doc[0] are the calls that raise in the model; the handler
\* turns every exception into the error result
extract_outline(doc) ==
    IF ~doc.openable \/ extract_title_from_pdf(doc).raised
    THEN ErrorResult
    ELSE [title |-> extract_title_from_pdf(doc).value,
          outline |-> format_outline(SortedHeadings(doc))]

----------------------------------------------------------------------------
(* process_pdfs: one iteration of the loop over pdf_files per step.        *)
(* output_dir[k] is <<>> while no JSON exists for document k and <<data>>  *)
(* once one is written; the documents of a batch have distinct stems.      *)

ErrorProcessingPrefix ==
    <<"E","r","r","o","r"," ","P","r","o","c","e","s","s","i","n","g",":"," ">>

\* pdf_file.name of the k-th document
FileName(k) ==
    <<"d","o","c">> \o <<(<<"1","2","3","4","5","6","7","8","9">>)[k]>>
    \o <<".","p","d","f">>

\* the second fitz.open of the iteration: len(doc), or 0 when it raises
PageCount(doc) == IF doc.openable THEN Len(doc.pages) ELSE 0

\* faulty variant: a document whose analysis fails gets no output (the loop of
\* app/process_pdfs.py, whose extract_outline has no handler)
ProcessFile_silent ==
    /\ next_file <= Len(pdf_files)
    /\ output_dir' =
          IF extract_outline(pdf_files[next_file]) = ErrorResult THEN output_dir
          ELSE [output_dir EXCEPT
                   ![next_file] = <<extract_outline(pdf_files[next_file])>>]
    /\ total_pages_processed' = total_pages_processed + PageCount(pdf_files[next_file])
    /\ successful_files' = successful_files + 1
    /\ next_file' = next_file + 1
    /\ UNCHANGED <<pdf_files, failed_files, args, ret, done>>

\* the try block runs to its end: the result of extract_outline is written;
\* validate_output returns a boolean that is not used (SCHEMA is empty or valid)
ProcessFile ==
    /\ next_file <= Len(pdf_files)
    /\ output_dir' =
          [output_dir EXCEPT ![next_file] = <<extract_outline(pdf_files[next_file])>>]
    /\ total_pages_processed' = total_pages_processed + PageCount(pdf_files[next_file])
    /\ successful_files' = successful_files + 1
    /\ next_file' = next_file + 1
    /\ UNCHANGED <<pdf_files, failed_files, args, ret, done>>

\* writing the JSON raises: the handler counts the failure and tries to write
\* the minimal output, which may fail in turn and is then given up
ProcessFileWriteError ==
    /\ next_file <= Len(pdf_files)
    /\ \E second_write_ok \in BOOLEAN :
          output_dir' =
             IF second_write_ok
             THEN [output_dir EXCEPT ![next_file] =
                      <<[title |-> ErrorProcessingPrefix \o FileName(next_file),
                         outline |-> <<>>]>>]
             ELSE output_dir
    /\ failed_files' = failed_files + 1
    /\ next_file' = next_file + 1
    /\ UNCHANGED <<pdf_files, total_pages_processed, successful_files, args, ret, done>>

NoCall ==
    /\ args = <<>>
    /\ ret = <<>>
    /\ done = TRUE

InitBatch(files) ==
    /\ pdf_files = files
    /\ next_file = 1
    /\ output_dir = [k \in 1..Len(files) |-> <<>>]
    /\ total_pages_processed = 0
    /\ successful_files = 0
    /\ failed_files = 0
    /\ NoCall

----------------------------------------------------------------------------
(* Inputs: texts built from fragments, font sizes, averages.               *)

MaxFragments == 2

\* fragments of span text; "@" stands for any character outside the allow-list
FragmentPool ==
    { <<"a","b">>, <<"A","b">>, <<"A","B","C">>, <<"1">>, <<"1","2","3">>,
      <<"a","b","c","d","e","f">>, <<"P","a","r","t">>, <<"I","V",".">>,
      <<"N","o","t","e",":">>, <<"a","@","b">>, <<"@">>, <<"a","\t","\t","b">> }

RECURSIVE JoinWords(_)
JoinWords(ws) ==
    IF ws = <<>> THEN <<>>
    ELSE IF Len(ws) = 1 THEN ws[1]
    ELSE ws[1] \o <<" ">> \o JoinWords(Tail(ws))

Repeat(w, count) == [k \in 1..count |-> w]

\* numbers of capitalized and plain words of the long texts: around the limits
\* of 8 and 20 words and the 70% title-case ratio
LongShapes == { <<8, 0>>, <<9, 0>>, <<20, 0>>, <<0, 21>>, <<7, 3>>, <<6, 4>> }

RawTexts ==
    { JoinWords(ws) : ws \in UNION { [1..m -> FragmentPool] : m \in 0..MaxFragments } }
    \cup { JoinWords(Repeat(<<"A","b">>, sh[1]) \o Repeat(<<"a","b">>, sh[2])) :
             sh \in LongShapes }

\* rounded font sizes, in tenths of a point; none lies exactly on 1.1 x or 1.3 x
\* an average below, where the rounding of the floating-point product decides
RoundedSizes == {100, 109, 111, 129, 131, 240}

\* document averages: 10.0 and 33.5 / 3
Averages == { [sum |-> 100, n |-> 1], [sum |-> 335, n |-> 3] }

NoBatch ==
    /\ pdf_files = <<>>
    /\ next_file = 1
    /\ output_dir = <<>>
    /\ total_pages_processed = 0
    /\ successful_files = 0
    /\ failed_files = 0

BatchUnchanged ==
    UNCHANGED <<pdf_files, next_file, output_dir, total_pages_processed,
                successful_files, failed_files>>

----------------------------------------------------------------------------
(* Specification SpecHeading: one span is cleaned and classified, as in    *)
(* the two loops of extract_outline.                                       *)

InitHeading ==
    /\ args \in [text : RawTexts, size : RoundedSizes, bold : BOOLEAN, avg : Averages]
    /\ ret = FALSE
    /\ done = FALSE
    /\ NoBatch

ClassifySpan ==
    /\ ~done
    /\ ret' = is_likely_heading(clean_text(args.text), args.size, args.bold, args.avg)
    /\ done' = TRUE
    /\ UNCHANGED args
    /\ BatchUnchanged

NextHeading == ClassifySpan

SpecHeading == InitHeading /\ [][NextHeading]_vars

\* the sum of the fixed weights, as the claim lists them
C3_Weights(text, size, bold, avg) ==
      (IF 10 * size * avg.n >= 11 * avg.sum THEN 2 ELSE 0)
    + (IF 10 * size * avg.n >= 13 * avg.sum THEN 2 ELSE 0)
    + (IF bold THEN 2 ELSE 0)
    + (IF has_heading_pattern(text) THEN 3 ELSE 0)
    + (IF Len(split(text)) >= 2
          /\ 10 * capitalized_words(split(text)) >= 7 * Len(split(text)) THEN 1 ELSE 0)
    + (IF Len(split(text)) <= 8 THEN 1 ELSE 0)

C3_TooLong(text) == Len(split(text)) > 20

C3_TooNumeric(text) == text # <<>> /\ 10 * CountDigits(text) > 3 * Len(text)

----------------------------------------------------------------------------
(* Specification SpecLevels: accepted headings are given levels, sorted    *)
(* and projected, as at the end of extract_outline.                        *)

MaxHeadings == 3

NumSizes == 7

\* rounded sizes 10.0, 12.0, ... in tenths
LadderSize(k) == 80 + 20 * k

HeadingText == <<"A","B","C">>

HeadingPool ==
    [text : {HeadingText}, size : {LadderSize(1), LadderSize(2), LadderSize(3)},
     page : {1, 2}, y : {50, 300}, bold : {FALSE}]

\* one heading per chosen size, by rising or falling size, spread over two pages
Ladder(S, rising) ==
    LET sizes == IF rising THEN SortedAscending(S) ELSE SortedDescending(S) IN
    [k \in 1..Len(sizes) |->
        [text |-> HeadingText, size |-> sizes[k], page |-> 1 + (k % 2),
         y |-> 50 * (Len(sizes) - k), bold |-> FALSE]]

HeadingLists ==
    UNION { [1..m -> HeadingPool] : m \in 0..MaxHeadings }
    \cup { Ladder(S, rising) :
             S \in SUBSET {LadderSize(k) : k \in 1..NumSizes}, rising \in BOOLEAN }

InitLevels ==
    /\ args \in HeadingLists
    /\ ret = [levelled |-> <<>>, sorted |-> <<>>, outline |-> <<>>]
    /\ done = FALSE
    /\ NoBatch

AssignLevels ==
    /\ ~done
    /\ LET levelled == determine_heading_levels(args)
           sorted == SortByPageAndY(levelled)
       IN  ret' = [levelled |-> levelled, sorted |-> sorted,
                   outline |-> format_outline(sorted)]
    /\ done' = TRUE
    /\ UNCHANGED args
    /\ BatchUnchanged

NextLevels == AssignLevels

SpecLevels == InitLevels /\ [][NextLevels]_vars

\* C1: after the levels are assigned, a heading of larger size never has a
\* deeper level than a heading of smaller size, in the list returned by
\* determine_heading_levels and between the entries of the final outline.
C1_Monotonic ==
    done =>
        /\ \A a, b \in 1..Len(ret.levelled) :
              ret.levelled[a].size > ret.levelled[b].size
                 => LevelOrdinal(ret.levelled[a].level)
                       <= LevelOrdinal(ret.levelled[b].level)
        /\ Len(ret.outline) = Len(ret.sorted)
        /\ \A a, b \in 1..Len(ret.outline) :
              ret.sorted[a].size > ret.sorted[b].size
                 => LevelOrdinal(ret.outline[a].level)
                       <= LevelOrdinal(ret.outline[b].level)

\* a larger heading placed after a smaller one in the outline, with a higher level
C1_Witness ==
    /\ done
    /\ \E a, b \in 1..Len(ret.outline) :
          /\ a < b
          /\ ret.sorted[a].size < ret.sorted[b].size
          /\ LevelOrdinal(ret.outline[a].level) > LevelOrdinal(ret.outline[b].level)

\* rank of a size among the distinct sizes of the candidates, 1 = largest
C2_Rank(size, headings) ==
    1 + Cardinality({sz \in {headings[k].size : k \in 1..Len(headings)} : sz > size})

\* C2: every candidate comes back, in place and unchanged but for its level,
\* which is H{min(k, 6)} for k the rank of its size among the candidates' sizes.
C2_LevelByRank ==
    done =>
        /\ Len(ret.levelled) = Len(args)
        /\ \A k \in 1..Len(args) :
              LET rank == C2_Rank(args[k].size, args) IN
              ret.levelled[k] =
                 [level |-> LevelNames[IF rank < 6 THEN rank ELSE 6]] @@ args[k]

\* two candidates of different sizes beyond the sixth size, both H6
C2_Witness ==
    /\ done
    /\ \E a, b \in 1..Len(args) :
          /\ args[a].size # args[b].size
          /\ C2_Rank(args[a].size, args) = 6
          /\ C2_Rank(args[b].size, args) > 6
          /\ ret.levelled[a].level = "H6"
          /\ ret.levelled[b].level = "H6"

----------------------------------------------------------------------------
(* Specification SpecTitle: the title of one document is resolved.         *)

MaxTitleSpans == 3

T_BigReport == <<"B","i","g"," ","R","e","p","o","r","t">>

T_BigReport2 == <<"b","i","g"," ","r","e","p","o","r","t"," ","2">>

T_OtherTitle == <<"O","t","h","e","r"," ","T","i","t","l","e">>

T_Short == <<"a","b"," ","c","d">>

\* raw sizes 11.96 and 12.04, both 12.0 once rounded; lines at y 100 and 110,
\* and one span on a line in between
TitleSpanPool ==
    [text : {T_BigReport, T_BigReport2, T_OtherTitle}, size : {1196, 1204},
     y : {100, 110}, font : {"Helvetica"}]
    \cup {[text |-> T_BigReport2, size |-> 1196, y |-> 105, font |-> "Helvetica"]}
    \cup {[text |-> T_Short, size |-> 1204, y |-> 100, font |-> "Helvetica"]}

TitlePages == UNION { [1..m -> TitleSpanPool] : m \in 0..MaxTitleSpans }

\* metadata titles: none, short, short once its blanks are collapsed, made of
\* characters outside the allow-list only, valid, valid with a removed character
MetadataTitles ==
    { <<>>, <<"a","b","c">>, <<"a"," "," ","b">>, <<"@","@","@","@">>,
      <<" ","D","o","c"," ","A"," ">>, <<"D","o","c","@","A">> }

TitleDocs ==
    { [openable |-> TRUE, title |-> <<>>, pages |-> <<page>>] : page \in TitlePages }
    \cup [openable : {TRUE}, title : MetadataTitles,
          pages : {<<>>} \cup { <<page>> : page \in [1..1 -> TitleSpanPool] }]

InitTitle ==
    /\ args \in TitleDocs
    /\ ret = Raised
    /\ done = FALSE
    /\ NoBatch

ResolveTitle ==
    /\ ~done
    /\ ret' = extract_title_from_pdf(args)
    /\ done' = TRUE
    /\ UNCHANGED args
    /\ BatchUnchanged

NextTitle == ResolveTitle

SpecTitle == InitTitle /\ [][NextTitle]_vars

\* C4 as stated: the normalized metadata title is returned exactly when it has
\* more than 3 characters; otherwise the result is that of the page-1 strategy.
C4_AsStated ==
    done =>
        IF Len(clean_text(args.title)) > 3
        THEN ret = Returned(clean_text(args.title))
        ELSE ret = page_one_title(args)

PageOneUsed == done /\ ~ret.raised /\ Len(strip(args.title)) <= 3 /\ args.pages # <<>>

\* the candidates of the filtered list, by identity
C9_Surviving ==
    LET filtered == FilteredCandidates(args.pages[1]) IN
    {filtered[k].span : k \in 1..Len(filtered)}

\* C9 as stated: of two near-duplicate candidates exactly one survives.
C9_AsStated ==
    PageOneUsed =>
        LET cands == TitleCandidates(args.pages[1])
            surviving == C9_Surviving
        IN  \A a, b \in 1..Len(cands) :
               (a < b /\ IsNearDuplicate(cands[a], cands[b]))
                  => Cardinality(surviving \cap {cands[a].span, cands[b].span}) = 1

\* C9 amended: of two near-duplicate candidates at most one survives; when
\* neither does, each is a near-duplicate of a surviving candidate.
C9_AtMostOne ==
    PageOneUsed =>
        LET cands == TitleCandidates(args.pages[1])
            surviving == C9_Surviving
            Covered(a) == \E c \in 1..Len(cands) :
                             /\ cands[c].span \in surviving
                             /\ IsNearDuplicate(cands[a], cands[c])
        IN  \A a, b \in 1..Len(cands) :
               (a < b /\ IsNearDuplicate(cands[a], cands[b]))
                  => /\ Cardinality(surviving \cap {cands[a].span, cands[b].span}) <= 1
                     /\ (surviving \cap {cands[a].span, cands[b].span} = {})
                           => (Covered(a) /\ Covered(b))

\* two near-duplicate candidates, both dropped for a third that survives
C9_Witness ==
    /\ PageOneUsed
    /\ LET cands == TitleCandidates(args.pages[1])
           surviving == C9_Surviving
       IN  \E a, b \in 1..Len(cands) :
              /\ a < b
              /\ IsNearDuplicate(cands[a], cands[b])
              /\ surviving \cap {cands[a].span, cands[b].span} = {}

\* C10: with the page-1 strategy and at least one candidate, the title is the
\* text of a candidate of the largest size and, among those, the smallest y (the
\* first such in span order), and the filtered list is never empty.
C10_TopCandidate ==
    (PageOneUsed /\ TitleCandidates(args.pages[1]) # <<>>) =>
        LET cands == TitleCandidates(args.pages[1])
            IsTop(k) == \A j \in 1..Len(cands) :
                           \/ cands[j].size < cands[k].size
                           \/ (cands[j].size = cands[k].size /\ cands[j].y >= cands[k].y)
            first == CHOOSE k \in 1..Len(cands) :
                        IsTop(k) /\ \A j \in 1..(k - 1) : ~IsTop(j)
        IN  /\ \E k \in 1..Len(cands) : IsTop(k)
            /\ ret.value = cands[first].text
            /\ FilteredCandidates(args.pages[1]) # <<>>
            /\ ret.value # UntitledDocument

\* the largest candidate comes last in span order and a near-duplicate was dropped
C10_Witness ==
    /\ PageOneUsed
    /\ LET cands == TitleCandidates(args.pages[1]) IN
       /\ Len(cands) = 3
       /\ cands[3].size > cands[1].size
       /\ cands[3].size > cands[2].size
       /\ ret.value = cands[3].text
       /\ ret.value # cands[1].text
       /\ Len(FilteredCandidates(args.pages[1])) < 3

----------------------------------------------------------------------------
(* Specification Spec: process_pdfs on a directory holding one document.   *)

MaxSpans == 3

T_Heading == <<"A","B","C">>

T_Body == <<"a","b"," ","c","d">>

\* 3 characters stripped, 2 once cleaned
T_Artifact == <<"a","@","b">>

OutlineSpanPool ==
    { [text |-> T_Heading,  size |-> 2400, y |-> 50,  font |-> "Helvetica"],
      [text |-> T_Heading,  size |-> 1204, y |-> 300, font |-> "Helvetica"],
      [text |-> T_Body,     size |-> 2400, y |-> 300, font |-> "Helvetica"],
      [text |-> T_Body,     size |-> 1196, y |-> 50,  font |-> "Helvetica-Bold"],
      [text |-> T_Body,     size |-> 1196, y |-> 300, font |-> "Helvetica"],
      [text |-> T_Artifact, size |-> 2400, y |-> 50,  font |-> "Helvetica"] }

PageCounts == {0, 1, 2}

\* the documents of page_count pages whose spans are those of placed, in order
DocOf(page_count, placed) ==
    LET OnPage(p) ==
            LET Here(e) == e.page = p
                here == SelectSeq(placed, Here)
            IN  [k \in 1..Len(here) |-> here[k].span]
    IN  [openable |-> TRUE, title |-> <<>>,
         pages |-> [p \in 1..page_count |-> OnPage(p)]]

OutlineDocs ==
    { DocOf(page_count, placed) :
        page_count \in PageCounts,
        placed \in UNION { [1..m -> [span : OutlineSpanPool, page : {1, 2}]] :
                             m \in 0..MaxSpans } }

Init == \E doc \in OutlineDocs : InitBatch(<<doc>>)

Next == ProcessFile \/ ProcessFileWriteError

Spec == Init /\ [][Next]_vars

\* the documents whose JSON was written by the try block of their iteration
WrittenByTry(k) == k < next_file /\ failed_files = 0

\* C5 as stated: a document without spans and without metadata title, pages or
\* not, gets the title "Untitled Document" and an empty outline.
C5_AsStated ==
    \A k \in 1..Len(pdf_files) :
        (/\ WrittenByTry(k)
         /\ pdf_files[k].openable
         /\ AllSpans(pdf_files[k]) = <<>>
         /\ strip(pdf_files[k].title) = <<>>)
            => output_dir[k] = <<[title |-> UntitledDocument, outline |-> <<>>]>>

\* the document without the spans whose cleaned text has fewer than 3 characters
C6_WithoutShortSpans(doc) ==
    LET Long(span) == Len(clean_text(span.text)) >= 3 IN
    [doc EXCEPT !.pages = [p \in 1..Len(doc.pages) |-> SelectSeq(doc.pages[p], Long)]]

\* C6 as stated: the spans whose cleaned text has fewer than 3 characters change
\* nothing in the font statistics, and none of them is classified.
C6_AsStated ==
    \A k \in 1..Len(pdf_files) :
        WrittenByTry(k) =>
            /\ extract_font_statistics(pdf_files[k])
                  = extract_font_statistics(C6_WithoutShortSpans(pdf_files[k]))
            /\ \A j \in 1..Len(TextBlocks(pdf_files[k])) :
                  Len(TextBlocks(pdf_files[k])[j].text) >= 3

\* C8: the outline holds one entry per accepted heading, with the level given by
\* determine_heading_levels, ordered by page and then by vertical position.
C8_OutlineOrder ==
    \A k \in 1..Len(pdf_files) :
        (WrittenByTry(k) /\ pdf_files[k].pages # <<>>) =>
            LET levelled == determine_heading_levels(Headings(pdf_files[k]))
                outline == output_dir[k][1].outline
            IN  /\ Len(outline) = Len(levelled)
                /\ \E perm \in Permutations(1..Len(levelled)) :
                      /\ \A j \in 1..Len(levelled) :
                            outline[j] = [level |-> levelled[perm[j]].level,
                                          text  |-> levelled[perm[j]].text,
                                          page  |-> levelled[perm[j]].page]
                      /\ \A j \in 1..(Len(levelled) - 1) :
                            \/ levelled[perm[j]].page < levelled[perm[j + 1]].page
                            \/ /\ levelled[perm[j]].page = levelled[perm[j + 1]].page
                               /\ levelled[perm[j]].y <= levelled[perm[j + 1]].y

\* headings of two levels on two pages, the one of page 2 higher on its page,
\* and on page 1 a heading found after a lower one
C8_Witness ==
    /\ WrittenByTry(1)
    /\ Len(pdf_files[1].pages) = 2
    /\ LET found == Headings(pdf_files[1])
           outline == output_dir[1][1].outline
       IN  /\ Len(found) = 3
           /\ found[1].page = 1 /\ found[2].page = 1 /\ found[3].page = 2
           /\ found[1].y > found[2].y
           /\ found[3].y < found[1].y
           /\ outline[1].text = found[2].text
           /\ outline[3].page = 2
           /\ outline[1].level # outline[2].level

----------------------------------------------------------------------------
(* Specification SpecBatch: process_pdfs on a directory of several         *)
(* documents, some of which fail.                                          *)

MaxBatch == 3

BatchPool ==
    { \* a heading and a body line
      [openable |-> TRUE, title |-> <<>>,
       pages |-> << << [text |-> T_Heading, size |-> 2400, y |-> 50, font |-> "Helvetica"],
                       [text |-> T_Body, size |-> 1196, y |-> 300, font |-> "Helvetica"] >> >>],
      \* a metadata title
      [openable |-> TRUE, title |-> <<"D","o","c"," ","A">>,
       pages |-> << << [text |-> T_Body, size |-> 1196, y |-> 50, font |-> "Helvetica-Bold"] >> >>],
      \* a blank page
      [openable |-> TRUE, title |-> <<>>, pages |-> << <<>> >>],
      \* fitz.open raises
      [openable |-> FALSE, title |-> <<>>,
       pages |-> << << [text |-> T_Heading, size |-> 2400, y |-> 50, font |-> "Helvetica"] >> >>],
      \* the analysis raises: no page to take the title from
      [openable |-> TRUE, title |-> <<>>, pages |-> <<>>] }

InitBatches == \E files \in UNION { [1..m -> BatchPool] : m \in 1..MaxBatch } : InitBatch(files)

NextBatch == ProcessFile \/ ProcessFileWriteError

SpecBatch == InitBatches /\ [][NextBatch]_vars

\* a document that cannot be opened or whose analysis raises
C7_Fails(doc) == ~doc.openable \/ (doc.pages = <<>> /\ Len(strip(doc.title)) <= 3)

\* the result of a document that does not fail, computed from it alone
C7_Alone(doc) ==
    [title |-> extract_title_from_pdf(doc).value,
     outline |-> format_outline(SortedHeadings(doc))]

\* C7: every iteration is counted and, unless writing the output itself failed,
\* leaves a result: the error title with an empty outline for a failing document,
\* and for any other document the result it has on its own, whatever fails
\* before or after it in the batch.
C7_Isolation ==
    /\ successful_files + failed_files = next_file - 1
    /\ \A k \in 1..(next_file - 1) :
          /\ output_dir[k] \in
                { <<>>,
                  <<[title |-> ErrorProcessingPrefix \o FileName(k), outline |-> <<>>]>>,
                  <<IF C7_Fails(pdf_files[k])
                    THEN [title |-> ErrorProcessingDocument, outline |-> <<>>]
                    ELSE C7_Alone(pdf_files[k])>> }
          /\ failed_files = 0 =>
                output_dir[k] =
                   <<IF C7_Fails(pdf_files[k])
                     THEN [title |-> ErrorProcessingDocument, outline |-> <<>>]
                     ELSE C7_Alone(pdf_files[k])>>
    /\ \A k \in next_file..Len(pdf_files) : output_dir[k] = <<>>

\* a batch of three processed to its end: a good document after one that could
\* not be opened and before one whose analysis raised
C7_Witness ==
    /\ Len(pdf_files) = 3
    /\ next_file = 4
    /\ failed_files = 0
    /\ ~pdf_files[1].openable
    /\ ~C7_Fails(pdf_files[2])
    /\ pdf_files[3].openable /\ C7_Fails(pdf_files[3])
    /\ output_dir[1] = <<[title |-> ErrorProcessingDocument, outline |-> <<>>]>>
    /\ Len(output_dir[2][1].outline) > 0
    /\ output_dir[3] = output_dir[1]

====
